---- MODULE Spec2Model ----
(***************************************************************************)
(* Model of DecisionLattice_evaluation/decision_tree_structure.py:         *)
(* ClassificationRule, DecisionPOSet / DecisionTree and                    *)
(* concept_lattice_from_decision_tree.                                     *)
(*                                                                         *)
(* A premise is a set of attribute names, a target a label.  Python        *)
(* positions are 0-based: position i of a Python list is element i+1 of    *)
(* the TLA+ sequence that models it.  The ordered-set primitive            *)
(* (fcapy.poset.POSet) is imported by the file; the POSet_* operators      *)
(* model the interface the file consumes from it.                          *)
(***************************************************************************)
EXTENDS Integers, Sequences, FiniteSets, TLC

VARIABLES state, premises, targets, elements_to_index_map, last, lattice,
          leq_func, other

vars == <<state, premises, targets, elements_to_index_map, last, lattice,
          leq_func, other>>

(* ------------------------------ bounds -------------------------------- *)
\* longest sequence handed to the DecisionPOSet constructor or grown by add()
MaxLen == 2
\* longest sequence handed to the DecisionTree constructor before a conversion
MaxTree == 3
\* most negative position tried by del dp[key] is -MaxNeg
MaxNeg == 2
\* longest (premises, targets) pair two DecisionPOSets are constructed from
MaxShared == 1

(* ------------------------------ domains ------------------------------- *)
Attrs == {"a", "b"}
PremiseVals == SUBSET Attrs
TargetVals == {"yes", "no"}
Objects == {"g1", "g2"}

\* the value index() returns for a miss; positions are never negative
None == -1

SeqUpTo(S, n) == UNION {[1..k -> S] : k \in 0..n}
Range(s) == {s[i] : i \in DOMAIN s}

(* ------------------------- ClassificationRule -------------------------- *)
ClassificationRule(premise, target) == [premise |-> premise, target |-> target]
Rules == [premise : PremiseVals, target : TargetVals]

compare_set_function_reversed(a, b) == (a \cap b) = a

compare_set_function(a, b) == (b \cap a) = b

(* ------------------- the index map {p: p_i for p_i, p} ------------------ *)
\* a dict comprehension keeps the last position of a repeated key
IndexMap(s) ==
    [p \in Range(s) |->
        (CHOOSE i \in DOMAIN s : s[i] = p /\ \A j \in DOMAIN s : s[j] = p => j <= i) - 1]

(* ---------------------- list deletion by position ---------------------- *)
IntKey(k) == [kind |-> "int", i |-> k]
SliceKey(lo, hi) == [kind |-> "slice", lo |-> lo, hi |-> hi]
IntKeys == {IntKey(k) : k \in (0 - MaxNeg)..MaxLen}
Keys == IntKeys
        \cup {SliceKey(lo, hi) : lo \in 0..MaxLen, hi \in 0..(MaxLen + 1)}

\* the 0-based positions of a sequence of length n that key denotes
KeyValid(n, key) ==
    IF key.kind = "int" THEN key.i >= 0 - n /\ key.i < n ELSE TRUE
KeyPositions(n, key) ==
    IF key.kind = "int"
    THEN {IF key.i < 0 THEN key.i + n ELSE key.i}
    ELSE {i \in 0..(n - 1) : key.lo <= i /\ i < key.hi}

RECURSIVE DropPositions(_, _, _)
DropPositions(s, D, i) ==
    IF i > Len(s) THEN <<>>
    ELSE (IF (i - 1) \in D THEN <<>> ELSE <<s[i]>>) \o DropPositions(s, D, i + 1)

\* del lst[key] on a Python list
list_delitem(s, key) ==
    IF KeyValid(Len(s), key)
    THEN [out |-> "ok", elements |-> DropPositions(s, KeyPositions(Len(s), key), 1)]
    ELSE [out |-> "IndexError", elements |-> s]

(* ------------------------ ordered-set primitive ------------------------ *)
POSet_new(elements) == elements

POSet_index(elements, element) ==
    IF element \in Range(elements)
    THEN [out |-> "ok", ret |-> IndexMap(elements)[element]]
    ELSE [out |-> "KeyError", ret |-> None]

POSet_add(elements, element) ==
    IF element \in Range(elements)
    THEN [out |-> "AssertionError", elements |-> elements]
    ELSE [out |-> "ok", elements |-> Append(elements, element)]

POSet_delitem(elements, key) == list_delitem(elements, key)

POSet_leq_elements(elements, a_index, b_index) ==
    compare_set_function(elements[a_index + 1], elements[b_index + 1])

POSet_sub_elements(elements, i) ==
    {j \in 0..(Len(elements) - 1) : j # i /\ POSet_leq_elements(elements, j, i)}

POSet_direct_sub_elements(elements, i) ==
    {j \in POSet_sub_elements(elements, i) :
        ~ \E k \in POSet_sub_elements(elements, i) : j \in POSet_sub_elements(elements, k)}

POSet_direct_sub_elements_dict(elements) ==
    [i \in 0..(Len(elements) - 1) |-> POSet_direct_sub_elements(elements, i)]

POSet_bottom_elements(elements) ==
    {i \in 0..(Len(elements) - 1) : POSet_sub_elements(elements, i) = {}}

(* ---------------------------- DecisionPOSet ---------------------------- *)
\* an optional constructor argument: absent (None) or a sequence
Absent == [given |-> FALSE, val |-> <<>>]
Given(v) == [given |-> TRUE, val |-> v]
OptArgs(S, n) == {Absent} \cup {Given(v) : v \in SeqUpTo(S, n)}
InitArgs(n) ==
    \* a rule list alone
    {[classification_rules |-> Given(cr), premises |-> Absent, targets |-> Absent,
      is_poset |-> FALSE] : cr \in SeqUpTo(Rules, n)}
    \* a (premises, targets) pair, either of them possibly absent
    \cup {[classification_rules |-> Absent, premises |-> pa, targets |-> ta,
           is_poset |-> ip] :
            pa \in OptArgs(PremiseVals, n), ta \in OptArgs(TargetVals, n), ip \in BOOLEAN}
    \* a rule list together with a pair
    \cup {[classification_rules |-> Given(cr), premises |-> Given(pa), targets |-> Given(ta),
           is_poset |-> FALSE] :
            cr \in SeqUpTo(Rules, 1), pa \in SeqUpTo(PremiseVals, 1),
            ta \in SeqUpTo(TargetVals, 1)}

\* __init__ with the uniqueness assertion run only on the POSet it builds itself
DecisionPOSet_init_assert_in_branch(classification_rules, premises_arg, targets_arg, is_poset) ==
    LET from_rules == classification_rules.given
        p0 == IF from_rules
              THEN [i \in DOMAIN classification_rules.val |-> classification_rules.val[i].premise]
              ELSE premises_arg.val
        t0 == IF from_rules
              THEN [i \in DOMAIN classification_rules.val |-> classification_rules.val[i].target]
              ELSE targets_arg.val
        wrapped == ~(is_poset /\ ~from_rules)
    IN  IF ~from_rules /\ (~premises_arg.given \/ ~targets_arg.given)
        THEN [out |-> "ValueError", premises |-> <<>>, targets |-> <<>>, map |-> <<>>]
        ELSE IF wrapped /\ Cardinality(Range(p0)) # Len(p0)
        THEN [out |-> "AssertionError", premises |-> <<>>, targets |-> <<>>, map |-> <<>>]
        ELSE [out |-> "ok", premises |-> p0, targets |-> t0, map |-> IndexMap(p0)]

\* __init__: the object's fields after construction, or the error raised.
\* A POSet passed in is kept as it is, a plain sequence is wrapped in one.
DecisionPOSet_init(classification_rules, premises_arg, targets_arg, is_poset) ==
    LET from_rules == classification_rules.given
        p0 == IF from_rules
              THEN [i \in DOMAIN classification_rules.val |-> classification_rules.val[i].premise]
              ELSE premises_arg.val
        t0 == IF from_rules
              THEN [i \in DOMAIN classification_rules.val |-> classification_rules.val[i].target]
              ELSE targets_arg.val
        p1 == IF is_poset /\ ~from_rules THEN p0 ELSE POSet_new(p0)
    IN  IF ~from_rules /\ (~premises_arg.given \/ ~targets_arg.given)
        THEN [out |-> "ValueError", premises |-> <<>>, targets |-> <<>>, map |-> <<>>]
        ELSE IF Cardinality(Range(p1)) # Len(p1)
        THEN [out |-> "AssertionError", premises |-> <<>>, targets |-> <<>>, map |-> <<>>]
        ELSE [out |-> "ok", premises |-> p1, targets |-> t0, map |-> IndexMap(p1)]

\* classification_rules: zip(premises, targets) stops at the shorter one
classification_rules(P, T) ==
    [i \in 1..(IF Len(P) < Len(T) THEN Len(P) ELSE Len(T)) |-> ClassificationRule(P[i], T[i])]

\* __len__
len(P) == Len(P)

\* index(element) without the comparison of the stored target
index_premise_only(P, T, element) ==
    LET r == POSet_index(P, element.premise)
    IN  IF r.out # "ok" THEN [out |-> r.out, ret |-> None]
        ELSE [out |-> "ok", ret |-> r.ret]

\* index(element)
index(P, T, element) ==
    LET r == POSet_index(P, element.premise)
    IN  IF r.out # "ok" THEN [out |-> r.out, ret |-> None]
        ELSE IF r.ret + 1 > Len(T) THEN [out |-> "IndexError", ret |-> None]
        ELSE IF T[r.ret + 1] = element.target THEN [out |-> "ok", ret |-> r.ret]
        ELSE [out |-> "ok", ret |-> None]

\* the less-or-equal predicates a caller supplies as leq_premise_func
leq_premise_funcs == {"compare_set_function", "subset_or_equal"}
apply_leq_func(f, a, b) ==
    IF f = "compare_set_function" THEN compare_set_function(a, b) ELSE a \subseteq b

\* POSet.leq_elements of a POSet built with leq_func f
POSet_leq_elements_by(f, elements, a_index, b_index) ==
    apply_leq_func(f, elements[a_index + 1], elements[b_index + 1])

leq_elements_swapped(f, P, a_index, b_index) ==
    POSet_leq_elements_by(f, P, b_index, a_index)

\* leq_elements(a_index, b_index)
leq_elements(f, P, a_index, b_index) == POSet_leq_elements_by(f, P, a_index, b_index)

\* add(element) that treats the premise order's refusal as "nothing to do"
add_swallow(P, T, M, element) ==
    LET r == POSet_add(P, element.premise)
    IN  IF r.out # "ok"
        THEN [out |-> "ok", premises |-> P, targets |-> T, map |-> M]
        ELSE [out |-> "ok", premises |-> r.elements,
              targets |-> Append(T, element.target), map |-> IndexMap(r.elements)]

\* add(element) that appends to the element list without asking the premise order
add_append(P, T, M, element) ==
    [out |-> "ok", premises |-> Append(P, element.premise),
     targets |-> Append(T, element.target), map |-> IndexMap(Append(P, element.premise))]

\* add(element): premises.add, then targets.append, then the map rebuild;
\* an error of premises.add leaves before anything is assigned
add(P, T, M, element) ==
    LET r == POSet_add(P, element.premise)
    IN  IF r.out # "ok"
        THEN [out |-> r.out, premises |-> P, targets |-> T, map |-> M]
        ELSE [out |-> "ok", premises |-> r.elements,
              targets |-> Append(T, element.target), map |-> IndexMap(r.elements)]

\* __delitem__(key): del premises[key], then del targets[key], then the map
\* rebuild; an error of the second del leaves after the first one acted
delitem(P, T, M, key) ==
    LET rp == POSet_delitem(P, key)
        rt == list_delitem(T, key)
    IN  IF rp.out # "ok"
        THEN [out |-> rp.out, premises |-> P, targets |-> T, map |-> M]
        ELSE IF rt.out # "ok"
        THEN [out |-> rt.out, premises |-> rp.elements, targets |-> T, map |-> M]
        ELSE [out |-> "ok", premises |-> rp.elements, targets |-> rt.elements,
              map |-> IndexMap(rp.elements)]

\* the unsupported operations with __eq__ answering instead of raising
unsupported_eq_answers(P, T, M, op) ==
    [out |-> IF op = "__eq__" THEN "ok" ELSE "NotImplementedError",
     premises |-> P, targets |-> T, map |-> M]

\* __and__, __or__, __xor__, __sub__, __eq__, trace_element
UnsupportedOps == {"__and__", "__or__", "__xor__", "__sub__", "__eq__", "trace_element"}
\* the argument: this object, another DecisionPOSet, or a value of another type
UnsupportedArgs == {"self", "other DecisionPOSet", "other type"}
unsupported(P, T, M, op) ==
    [out |-> "NotImplementedError", premises |-> P, targets |-> T, map |-> M]

(* --------------------------- formal context ---------------------------- *)
object_names == <<"g1", "g2">>
attribute_names == <<"a", "b">>
Contexts == SUBSET (Objects \X Attrs)

NameIndex(names, x) == (CHOOSE i \in DOMAIN names : names[i] = x) - 1
extension(context, B) == {g \in Objects : \A m \in B : <<g, m>> \in context}
intention(context, A) == {m \in Attrs : \A g \in A : <<g, m>> \in context}
hash_fixed(context) == context

(* ------------------ concept_lattice_from_decision_tree ------------------ *)
FormalConcept(extent_i, extent, intent_i, intent, context_hash) ==
    [extent_i |-> extent_i, extent |-> extent, intent_i |-> intent_i,
     intent |-> intent, context_hash |-> context_hash]

NoLattice == [out |-> "none", concepts |-> <<>>, sbc_dict |-> <<>>]

\* the conversion with bc_i taken from the length of dt instead of the concepts
conversion_bc_from_dt(context, P) ==
    LET r == POSet_add(P, Range(attribute_names))
        ps == r.elements
        extents == [i \in DOMAIN ps |-> extension(context, ps[i])]
        intents == [i \in DOMAIN ps |-> intention(context, extents[i])]
        concepts == [c \in DOMAIN ps |->
                        FormalConcept({NameIndex(object_names, g) : g \in extents[c]},
                                      extents[c],
                                      {NameIndex(attribute_names, m) : m \in intents[c]},
                                      intents[c], hash_fixed(context))]
        bc_i == Len(P) - 1
        d0 == POSet_direct_sub_elements_dict(P)
        sbc_dict == [el_i \in DOMAIN d0 |->
                        IF el_i \in POSet_bottom_elements(P) THEN {bc_i} ELSE d0[el_i]]
    IN  IF r.out # "ok"
        THEN [out |-> r.out, concepts |-> <<>>, sbc_dict |-> <<>>]
        ELSE [out |-> "ok", concepts |-> concepts, sbc_dict |-> sbc_dict]

\* the conversion taking each premise as the intent, without closing it
conversion_no_closure(context, P) ==
    LET r == POSet_add(P, Range(attribute_names))
        ps == r.elements
        extents == [i \in DOMAIN ps |-> extension(context, ps[i])]
        intents == [i \in DOMAIN ps |-> ps[i]]
        concepts == [c \in DOMAIN ps |->
                        FormalConcept({NameIndex(object_names, g) : g \in extents[c]},
                                      extents[c],
                                      {NameIndex(attribute_names, m) : m \in intents[c]},
                                      intents[c], hash_fixed(context))]
        bc_i == Len(concepts) - 1
        d0 == POSet_direct_sub_elements_dict(P)
        sbc_dict == [el_i \in DOMAIN d0 |->
                        IF el_i \in POSet_bottom_elements(P) THEN {bc_i} ELSE d0[el_i]]
    IN  IF r.out # "ok"
        THEN [out |-> r.out, concepts |-> <<>>, sbc_dict |-> <<>>]
        ELSE [out |-> "ok", concepts |-> concepts, sbc_dict |-> sbc_dict]

conversion_no_rewire(context, P) ==
    LET r == POSet_add(P, Range(attribute_names))
        ps == r.elements
        extents == [i \in DOMAIN ps |-> extension(context, ps[i])]
        intents == [i \in DOMAIN ps |-> intention(context, extents[i])]
        extents_i == [i \in DOMAIN ps |-> {NameIndex(object_names, g) : g \in extents[i]}]
        intents_i == [i \in DOMAIN ps |-> {NameIndex(attribute_names, m) : m \in intents[i]}]
        context_hash == hash_fixed(context)
        concepts == [c \in DOMAIN ps |->
                        FormalConcept(extents_i[c], extents[c], intents_i[c], intents[c],
                                      context_hash)]
        sbc_dict == POSet_direct_sub_elements_dict(P)
    IN  IF r.out # "ok"
        THEN [out |-> r.out, concepts |-> <<>>, sbc_dict |-> <<>>]
        ELSE [out |-> "ok", concepts |-> concepts, sbc_dict |-> sbc_dict]

concept_lattice_from_decision_tree(context, P) ==
    LET r == POSet_add(P, Range(attribute_names))
        ps == r.elements
        extents == [i \in DOMAIN ps |-> extension(context, ps[i])]
        intents == [i \in DOMAIN ps |-> intention(context, extents[i])]
        extents_i == [i \in DOMAIN ps |-> {NameIndex(object_names, g) : g \in extents[i]}]
        intents_i == [i \in DOMAIN ps |-> {NameIndex(attribute_names, m) : m \in intents[i]}]
        context_hash == hash_fixed(context)
        concepts == [c \in DOMAIN ps |->
                        FormalConcept(extents_i[c], extents[c], intents_i[c], intents[c],
                                      context_hash)]
        bc_i == Len(concepts) - 1
        d0 == POSet_direct_sub_elements_dict(P)
        sbc_dict == [el_i \in DOMAIN d0 |->
                        IF el_i \in POSet_bottom_elements(P) THEN {bc_i} ELSE d0[el_i]]
    IN  IF r.out # "ok"
        THEN [out |-> r.out, concepts |-> <<>>, sbc_dict |-> <<>>]
        ELSE [out |-> "ok", concepts |-> concepts, sbc_dict |-> sbc_dict]

\* dt.premises after a conversion that adds the premise to dt.premises itself
dt_premises_after_no_copy(context, P) == POSet_add(P, Range(attribute_names)).elements

\* dt.premises after the conversion: line 173 works on a deep copy, so the
\* premise added in line 174 does not reach the caller's tree
dt_premises_after(context, P) == P

\* the returned lattice after a later add or del on dt left dt.premises as P:
\* its concepts were built from the copy, its adjacency is the deep copy of
\* line 187, so nothing of it is an object of dt
lattice_shares_adjacency(L, P) ==
    IF L.out = "ok" THEN [L EXCEPT !.sbc_dict = POSet_direct_sub_elements_dict(P)]
    ELSE L

lattice_after_dt_change(L, P) == L

\* the second DecisionPOSet of the sharing specification, none yet
NoOther == [live |-> FALSE]

\* __init__ keeps the premises object it is given when that is a POSet and no
\* rule list is given (lines 46-48, 53, 61), and keeps the targets object it
\* is given when no rule list is given (lines 46-48, 62)
keeps_premises_object(a) == a.is_poset /\ ~a.classification_rules.given
keeps_targets_object(a) == ~a.classification_rules.given

\* the second DecisionPOSet after the first one's fields became P and T
SeenByOther(o, P, T) ==
    [o EXCEPT !.premises = IF o.same_premises THEN P ELSE @,
              !.targets = IF o.same_targets THEN T ELSE @,
              !.pre = [premises |-> o.premises, targets |-> o.targets]]

(* ------------------------------- actions ------------------------------- *)
Snapshot == [premises |-> premises, targets |-> targets, map |-> elements_to_index_map]
Call(op, arg, out, ret) == [op |-> op, arg |-> arg, out |-> out, ret |-> ret, pre |-> Snapshot]

Init ==
    /\ state = "new"
    /\ premises = <<>>
    /\ targets = <<>>
    /\ elements_to_index_map = <<>>
    /\ last = [op |-> "none", arg |-> <<>>, out |-> "ok", ret |-> None,
               pre |-> [premises |-> <<>>, targets |-> <<>>, map |-> <<>>]]
    /\ lattice = NoLattice
    /\ leq_func = "compare_set_function"
    /\ other = NoOther

Construct(n) ==
    /\ state = "new"
    /\ \E a \in InitArgs(n) :
          LET r == DecisionPOSet_init(a.classification_rules, a.premises, a.targets,
                                      a.is_poset)
          IN  /\ state' = IF r.out = "ok" THEN "live" ELSE "failed"
              /\ premises' = r.premises
              /\ targets' = r.targets
              /\ elements_to_index_map' = r.map
              /\ last' = Call("init", a, r.out, None)
    /\ UNCHANGED <<lattice, leq_func, other>>

ConstructPOSet == Construct(MaxLen)
ConstructTree == Construct(MaxTree)

AddUpTo(n) ==
    /\ state = "live"
    /\ Len(premises) < n
    /\ Len(targets) < n
    /\ \E element \in Rules :
          LET r == add(premises, targets, elements_to_index_map, element)
          IN  /\ premises' = r.premises
              /\ targets' = r.targets
              /\ elements_to_index_map' = r.map
              /\ last' = Call("add", element, r.out, None)
              /\ lattice' = lattice_after_dt_change(lattice, r.premises)
    /\ UNCHANGED <<state, leq_func, other>>

Add == AddUpTo(MaxLen)
AddTree == AddUpTo(MaxTree)

DelKeys(K) ==
    /\ state = "live"
    /\ \E key \in K :
          LET r == delitem(premises, targets, elements_to_index_map, key)
          IN  /\ premises' = r.premises
              /\ targets' = r.targets
              /\ elements_to_index_map' = r.map
              /\ last' = Call("del", key, r.out, None)
              /\ lattice' = lattice_after_dt_change(lattice, r.premises)
    /\ UNCHANGED <<state, leq_func, other>>

DelItem == DelKeys(Keys)
DelInt == DelKeys(IntKeys)

IndexCall ==
    /\ state = "live"
    /\ \E element \in Rules :
          LET r == index(premises, targets, element)
          IN  last' = Call("index", element, r.out, r.ret)
    /\ UNCHANGED <<state, premises, targets, elements_to_index_map, lattice,
                   leq_func, other>>

Unsupported ==
    /\ state = "live"
    /\ \E op \in UnsupportedOps, arg \in UnsupportedArgs :
          LET r == unsupported(premises, targets, elements_to_index_map, op)
          IN  /\ premises' = r.premises
              /\ targets' = r.targets
              /\ elements_to_index_map' = r.map
              /\ last' = Call(op, arg, r.out, None)
    /\ UNCHANGED <<state, lattice, leq_func, other>>

ConvertIn(C) ==
    /\ state = "live"
    /\ \E context \in C :
          /\ lattice' = concept_lattice_from_decision_tree(context, premises)
          /\ premises' = dt_premises_after(context, premises)
          /\ last' = Call("convert", context, lattice'.out, None)
    /\ UNCHANGED <<state, targets, elements_to_index_map, leq_func, other>>

Convert == ConvertIn(Contexts)

\* two DecisionPOSets constructed from one (premises, targets) pair: the second
\* is handed the same premises object or an equal one, the same targets list
\* or an equal one; the pair has as many targets as premises
ConstructTwo ==
    /\ state = "new"
    /\ \E a \in InitArgs(MaxShared), same_p \in BOOLEAN, same_t \in BOOLEAN :
          LET r == DecisionPOSet_init(a.classification_rules, a.premises, a.targets,
                                      a.is_poset)
          IN  /\ ~a.classification_rules.given
              /\ a.premises.given /\ a.targets.given
              /\ Len(a.premises.val) = Len(a.targets.val)
              /\ state' = IF r.out = "ok" THEN "live" ELSE "failed"
              /\ premises' = r.premises
              /\ targets' = r.targets
              /\ elements_to_index_map' = r.map
              /\ last' = Call("init", a, r.out, None)
              /\ other' = IF r.out = "ok"
                          THEN [live |-> TRUE, premises |-> r.premises,
                                targets |-> r.targets, map |-> r.map,
                                same_premises |-> same_p /\ keeps_premises_object(a),
                                same_targets |-> same_t /\ keeps_targets_object(a),
                                pre |-> [premises |-> r.premises, targets |-> r.targets]]
                          ELSE NoOther
    /\ UNCHANGED <<lattice, leq_func>>

\* add on the first DecisionPOSet, seen from the second
AddShared ==
    /\ state = "live" /\ other.live
    /\ Len(premises) <= MaxShared
    /\ Len(targets) <= MaxShared
    /\ \E element \in Rules :
          LET r == add(premises, targets, elements_to_index_map, element)
          IN  /\ premises' = r.premises
              /\ targets' = r.targets
              /\ elements_to_index_map' = r.map
              /\ last' = Call("add", element, r.out, None)
              /\ other' = SeenByOther(other, r.premises, r.targets)
    /\ UNCHANGED <<state, lattice, leq_func>>

\* del on the first DecisionPOSet, seen from the second
DelShared ==
    /\ state = "live" /\ other.live
    /\ \E key \in IntKeys :
          LET r == delitem(premises, targets, elements_to_index_map, key)
          IN  /\ premises' = r.premises
              /\ targets' = r.targets
              /\ elements_to_index_map' = r.map
              /\ last' = Call("del", key, r.out, None)
              /\ other' = SeenByOther(other, r.premises, r.targets)
    /\ UNCHANGED <<state, lattice, leq_func>>

\* DecisionPOSet(classification_rules, leq_premise_func=f)
ConstructOrder ==
    /\ state = "new"
    /\ \E rules \in SeqUpTo(Rules, MaxLen), f \in leq_premise_funcs :
          LET r == DecisionPOSet_init(Given(rules), Absent, Absent, FALSE)
          IN  /\ state' = IF r.out = "ok" THEN "live" ELSE "failed"
              /\ premises' = r.premises
              /\ targets' = r.targets
              /\ elements_to_index_map' = r.map
              /\ leq_func' = f
              /\ last' = Call("init", rules, r.out, None)
    /\ UNCHANGED <<lattice, other>>

\* dp.leq_elements(a_index, b_index) for valid positions
LeqCall ==
    /\ state = "live"
    /\ \E a_index \in 0..(Len(premises) - 1), b_index \in 0..(Len(premises) - 1) :
          last' = Call("leq", <<a_index, b_index>>, "ok",
                       leq_elements(leq_func, premises, a_index, b_index))
    /\ UNCHANGED <<state, premises, targets, elements_to_index_map, lattice,
                   leq_func, other>>

NextOrder == ConstructOrder \/ AddTree \/ DelInt \/ LeqCall

SpecOrder == Init /\ [][NextOrder]_vars

\* the contexts of the conversions that are followed by add and del
LaterContexts ==
    { {<<"g1", "a">>, <<"g2", "b">>},
      {<<"g1", "a">>, <<"g1", "b">>, <<"g2", "a">>} }

\* one conversion of a tree, which add and del may precede and follow
ConvertOnce ==
    /\ lattice.out = "none"
    /\ ConvertIn(LaterContexts)

\* DecisionTree(classification_rules)
ConstructRules ==
    /\ state = "new"
    /\ \E rules \in SeqUpTo(Rules, MaxLen) :
          LET r == DecisionPOSet_init(Given(rules), Absent, Absent, FALSE)
          IN  /\ state' = IF r.out = "ok" THEN "live" ELSE "failed"
              /\ premises' = r.premises
              /\ targets' = r.targets
              /\ elements_to_index_map' = r.map
              /\ last' = Call("init", rules, r.out, None)
    /\ UNCHANGED <<lattice, leq_func, other>>

NextLater == ConstructRules \/ ConvertOnce \/ Add \/ DelInt

SpecLater == Init /\ [][NextLater]_vars

NextShared == ConstructTwo \/ AddShared \/ DelShared

SpecShared == Init /\ [][NextShared]_vars

Next == ConstructPOSet \/ Add \/ DelItem \/ IndexCall \/ Unsupported

Spec == Init /\ [][Next]_vars

NextLattice == ConstructTree \/ Convert

SpecLattice == Init /\ [][NextLattice]_vars

(* ------------------------------- claims -------------------------------- *)
Distinct(s) == \A i, j \in DOMAIN s : s[i] = s[j] => i = j
Unchanged == Snapshot = last.pre

\* C1: in every state of a constructed DecisionPOSet, after any add and del
\* calls (failed ones too), len(premises) = len(targets) = len(dp).
C1_LengthsAgree ==
    state = "live" => Len(premises) = Len(targets) /\ Len(targets) = len(premises)

\* C2 as stated: index(ClassificationRule(p, t)) returns i iff premises[i] = p
\* and targets[i] = t, returns None when p is paired with another target, and
\* returns None without raising when p is absent.
C2_IndexIffPair ==
    last.op = "index" =>
        \A i \in 0..MaxLen :
            (last.out = "ok" /\ last.ret = i)
                <=> /\ i < Len(premises) /\ i < Len(targets)
                    /\ premises[i + 1] = last.arg.premise
                    /\ targets[i + 1] = last.arg.target
C2_IndexOtherTarget ==
    last.op = "index" =>
        \A i \in 0..MaxLen :
            (/\ i < Len(premises) /\ i < Len(targets)
             /\ premises[i + 1] = last.arg.premise
             /\ targets[i + 1] # last.arg.target)
                => last.out = "ok" /\ last.ret = None
C2_IndexAbsentReturnsNone ==
    (last.op = "index" /\ last.arg.premise \notin Range(premises))
        => last.out = "ok" /\ last.ret = None
C2_Original == C2_IndexIffPair /\ C2_IndexOtherTarget /\ C2_IndexAbsentReturnsNone

\* C2 amended: index returns i iff premises[i] = p and targets[i] = t, returns
\* None when p is paired with another target, and raises the premise order's
\* lookup error (it returns nothing) when p is absent.
C2_IndexAbsentRaises ==
    (last.op = "index" /\ last.arg.premise \notin Range(premises))
        => last.out # "ok"
C2_Amended == C2_IndexIffPair /\ C2_IndexOtherTarget /\ C2_IndexAbsentRaises
\* an index call for an absent premise, after one that hit and one that missed
C2_Witness ==
    /\ last.op = "index"
    /\ last.arg.premise \notin Range(premises)
    /\ Len(premises) = 2 /\ Len(targets) = 2
    /\ targets[1] # targets[2]

\* C3: after a successful add(rule), len(dp) is one larger, index(rule) returns
\* the last position, and every position valid before the call holds the
\* premise and target it held before.
C3_AddAppends ==
    (last.op = "add" /\ last.out = "ok") =>
        /\ len(premises) = len(last.pre.premises) + 1
        /\ index(premises, targets, last.arg) = [out |-> "ok", ret |-> len(premises) - 1]
        /\ \A i \in 1..len(last.pre.premises) :
              /\ premises[i] = last.pre.premises[i]
              /\ i \in DOMAIN last.pre.targets /\ i \in DOMAIN targets
              /\ targets[i] = last.pre.targets[i]

\* C4: add(rule) whose premise is already present (with the same or another
\* target) ends with the premise order's error and never completes normally.
C4_DuplicateAddFails ==
    (last.op = "add" /\ last.arg.premise \in Range(last.pre.premises))
        => last.out # "ok"
\* a refused add of a present premise with a target other than the stored one
C4_Witness ==
    /\ last.op = "add"
    /\ last.out = "AssertionError"
    /\ \E i \in DOMAIN premises :
          /\ premises[i] = last.arg.premise
          /\ i \in DOMAIN targets /\ targets[i] # last.arg.target

\* C5: an add of a present premise, or a del that fails, leaves premises,
\* targets and the index map as they were before the call.
C5_FailedMutationKeepsState ==
    (last.op \in {"add", "del"} /\ last.out # "ok") => Unchanged

\* C6: after del dp[i] with a valid position i, len(dp) is one smaller and the
\* rule now at position j is the one formerly at j (j < i) or j + 1 (j >= i);
\* a slice key removes the same positions from premises and from targets.
C6_DelRemovesOneRule ==
    (/\ last.op = "del" /\ last.arg.kind = "int"
     /\ 0 <= last.arg.i /\ last.arg.i < len(last.pre.premises)) =>
        /\ last.out = "ok"
        /\ len(premises) = len(last.pre.premises) - 1
        /\ Len(targets) = len(premises)
        /\ \A j \in 0..(len(premises) - 1) :
              LET k == IF j < last.arg.i THEN j ELSE j + 1
              IN  /\ premises[j + 1] = last.pre.premises[k + 1]
                  /\ (k + 1) \in DOMAIN last.pre.targets
                  /\ targets[j + 1] = last.pre.targets[k + 1]
C6_SliceRemovesSamePositions ==
    (last.op = "del" /\ last.arg.kind = "slice") =>
        LET D == KeyPositions(len(last.pre.premises), last.arg)
        IN  /\ premises = DropPositions(last.pre.premises, D, 1)
            /\ targets = DropPositions(last.pre.targets, D, 1)
C6_DelLockstep == C6_DelRemovesOneRule /\ C6_SliceRemovesSamePositions

\* C7: construction fails whenever the premises it is given contain a
\* duplicate (in a rule list, a plain sequence or a ready POSet), and fails
\* with ValueError when classification_rules is absent and premises or
\* targets is absent; no object is produced in either case.
GivenPremises(a) ==
    IF a.classification_rules.given
    THEN [i \in DOMAIN a.classification_rules.val |-> a.classification_rules.val[i].premise]
    ELSE a.premises.val
IncompleteArgs(a) ==
    ~a.classification_rules.given /\ (~a.premises.given \/ ~a.targets.given)
C7_BadConstructionFails ==
    last.op = "init" =>
        /\ (~Distinct(GivenPremises(last.arg)) \/ IncompleteArgs(last.arg))
              => /\ state = "failed" /\ last.out # "ok"
                 /\ premises = <<>> /\ targets = <<>> /\ elements_to_index_map = <<>>
        /\ IncompleteArgs(last.arg) => last.out = "ValueError"
\* a ready POSet holding a premise twice was refused by the assertion
C7_Witness ==
    /\ last.op = "init" /\ state = "failed"
    /\ last.out = "AssertionError"
    /\ last.arg.is_poset
    /\ ~Distinct(last.arg.premises.val)

\* C8: the premises of a constructed DecisionPOSet are pairwise distinct in
\* every state reached by add and del calls.
C8_PremisesDistinct == state = "live" => Distinct(premises)
\* an add that was accepted next to a premise already there
C8_Witness ==
    /\ state = "live" /\ last.op = "add" /\ last.out = "ok"
    /\ Len(premises) = 2

\* C9: __and__, __or__, __xor__, __sub__, __eq__ and trace_element raise
\* NotImplementedError for every argument and change no field.
C9_UnsupportedRaises ==
    last.op \in UnsupportedOps => last.out = "NotImplementedError" /\ Unchanged
\* __eq__ against another DecisionPOSet on an object holding two rules
C9_Witness ==
    /\ last.op = "__eq__" /\ last.arg = "other DecisionPOSet"
    /\ last.out = "NotImplementedError"
    /\ Len(premises) = 2

\* C10: for every context and DecisionTree, the conversion produces exactly
\* len(dt.premises) + 1 concepts, the last one being the concept of the
\* full attribute set.
C10_OneMoreConcept ==
    last.op = "convert" =>
        /\ lattice.out = "ok"
        /\ Len(lattice.concepts) = len(premises) + 1
        /\ LET c == lattice.concepts[Len(lattice.concepts)]
               ext == extension(last.arg, Range(attribute_names))
           IN  c.extent = ext /\ c.intent = intention(last.arg, ext)

\* the conversion of the last call returned a lattice
Converted == last.op = "convert" /\ lattice.out = "ok"
\* position i of P is a minimal (bottom) element of the premise order
Minimal(P, i) ==
    ~ \E j \in 0..(Len(P) - 1) : j # i /\ compare_set_function(P[j + 1], P[i + 1])
\* the concept of the context's full attribute set
FullAttributeConcept(context) ==
    LET ext == extension(context, Range(attribute_names))
        int == intention(context, ext)
    IN  FormalConcept({NameIndex(object_names, g) : g \in ext}, ext,
                      {NameIndex(attribute_names, m) : m \in int}, int,
                      hash_fixed(context))

\* C11: in the returned adjacency every minimal element of dt has the direct
\* sub-concept set {s}, s the index of the synthetic full-attribute concept
\* and not its own index; every other index keeps the set it has in dt.
C11_BottomsRewired ==
    Converted =>
        LET s == Len(premises)
        IN  /\ Len(lattice.concepts) = s + 1
            /\ lattice.concepts[s + 1] = FullAttributeConcept(last.arg)
            /\ \A i \in 0..(Len(premises) - 1) :
                  /\ i \in DOMAIN lattice.sbc_dict
                  /\ IF Minimal(premises, i)
                     THEN lattice.sbc_dict[i] = {s} /\ s # i
                     ELSE lattice.sbc_dict[i] = POSet_direct_sub_elements(premises, i)
\* a converted tree with a root above two leaves
C11_Witness ==
    /\ Converted
    /\ Len(premises) = 3
    /\ Cardinality({i \in 0..2 : Minimal(premises, i)}) = 2

C13_ConceptsClosed ==
    Converted =>
        \A c \in DOMAIN lattice.concepts :
            LET fc == lattice.concepts[c]
            IN  /\ intention(last.arg, fc.extent) = fc.intent
                /\ extension(last.arg, fc.intent) = fc.extent
                /\ fc.extent_i = {NameIndex(object_names, g) : g \in fc.extent}
                /\ fc.intent_i = {NameIndex(attribute_names, m) : m \in fc.intent}
                /\ fc.context_hash = hash_fixed(last.arg)
                /\ \A d \in DOMAIN lattice.concepts :
                      lattice.concepts[d].context_hash = fc.context_hash
\* a converted tree with a premise that is not closed: its intent is larger
C13_Witness ==
    /\ Converted
    /\ Len(premises) = 3
    /\ \E c \in DOMAIN premises : lattice.concepts[c].intent # premises[c]

\* position i of P is a maximal element (a root) of the premise order
Maximal(P, i) ==
    ~ \E j \in 0..(Len(P) - 1) : j # i /\ compare_set_function(P[i + 1], P[j + 1])
\* the premise order has the shape of a binary tree
BinaryTreeShape(P) ==
    /\ \A i \in 0..(Len(P) - 1) : Cardinality(POSet_direct_sub_elements(P, i)) <= 2
    /\ Len(P) > 0 => Cardinality({i \in 0..(Len(P) - 1) : Maximal(P, i)}) = 1

\* C14: every DecisionTree that was constructed has a premise order of
\* binary-tree shape, at most two direct sub-elements per element and one
\* root; rules whose premise order has another shape are refused.
C14_TreeShape == state = "live" => BinaryTreeShape(premises)

\* C15: an add or del on one DecisionPOSet changes neither the premises, the
\* targets, the length nor the index results of another one, also when both
\* were constructed from the same premises object or targets list, and does
\* not break the other's len(premises) = len(targets).
C15_NoSharing ==
    (state = "live" /\ other.live /\ last.op \in {"add", "del"}) =>
        /\ other.premises = other.pre.premises
        /\ other.targets = other.pre.targets
        /\ len(other.premises) = len(other.pre.premises)
        /\ \A element \in Rules :
              index(other.premises, other.targets, element)
                 = index(other.pre.premises, other.pre.targets, element)
        /\ Len(other.pre.premises) = Len(other.pre.targets)
              => Len(other.premises) = Len(other.targets)

\* C16: leq_elements(i, j) is the caller-supplied predicate applied to
\* (premises[i], premises[j]), whatever the targets are; with subset-or-equal,
\* a rule with premise {a} is below a rule with premise {a, b} and not the
\* other way round, wherever add and del calls have left the two rules.
C16_OrderDelegates ==
    (state = "live" /\ last.op = "leq") =>
        LET a == premises[last.arg[1] + 1]
            b == premises[last.arg[2] + 1]
        IN  /\ last.ret = apply_leq_func(leq_func, a, b)
            /\ (leq_func = "subset_or_equal" /\ a = {"a"} /\ b = {"a", "b"})
                  => last.ret = TRUE
            /\ (leq_func = "subset_or_equal" /\ a = {"a", "b"} /\ b = {"a"})
                  => last.ret = FALSE

C16_Witness ==
    /\ state = "live" /\ last.op = "leq" /\ leq_func = "subset_or_equal"
    /\ Len(premises) = 3
    /\ premises[2] = {"a"} /\ premises[3] = {"a", "b"}
    /\ targets[2] = "yes" /\ targets[3] = "no"
    /\ last.arg = <<1, 2>> /\ last.ret = TRUE

\* C17: once concept_lattice_from_decision_tree has returned a lattice, no add
\* or del on the tree changes the returned concept list or the returned
\* sub-concept adjacency.
C17_LatticeKeepsItsValue ==
    [][(lattice.out = "ok" /\ last'.op \in {"add", "del"}) => lattice' = lattice]_vars

C17_Witness ==
    /\ lattice.out = "ok" /\ Len(lattice.concepts) = 3
    /\ last.op = "del" /\ last.out = "ok"
    /\ Len(premises) = 1 /\ Len(last.pre.premises) = 2

\* C18: the adjacency handed to the ConceptLattice has exactly the concept
\* indices 0..n as its keys, n = len(dt.premises), with the synthetic concept's
\* index n mapped to the empty set, and every index in a value set is in 0..n.
C18_AdjacencyWellFormed ==
    Converted =>
        LET n == Len(premises)
        IN  /\ DOMAIN lattice.sbc_dict = 0..n
            /\ lattice.sbc_dict[n] = {}
            /\ \A i \in DOMAIN lattice.sbc_dict : lattice.sbc_dict[i] \subseteq 0..n

\* the direct sub-concepts the adjacency d lists for index i
Children(d, i) == IF i \in DOMAIN d THEN d[i] ELSE {}
\* the indices reached from the set S in one to k steps along d
RECURSIVE Below(_, _, _)
Below(d, S, k) ==
    IF k = 0 THEN {}
    ELSE LET step == UNION {Children(d, i) : i \in S}
         IN  step \cup Below(d, step, k - 1)

\* C19: in the returned adjacency the synthetic full-attribute concept (index
\* n) lists no direct sub-concept, every other concept lists at least one and
\* reaches n along the edges, and no concept reaches itself.
C19_UniqueBottom ==
    Converted =>
        LET n == Len(premises)
            d == lattice.sbc_dict
        IN  /\ Children(d, n) = {}
            /\ \A i \in 0..(n - 1) :
                  /\ Children(d, i) # {}
                  /\ n \in Below(d, {i}, n + 1)
            /\ \A i \in 0..n : i \notin Below(d, {i}, n + 1)
\* a converted tree with an inner premise: the bottom is two edges away
C19_Witness ==
    /\ Converted
    /\ Len(premises) = 3
    /\ \E i \in 0..2 : 3 \notin Children(lattice.sbc_dict, i)

\* C20: with compare_set_function as the premise order, every edge of the
\* returned adjacency goes to a concept whose extent is included in the
\* extent of the concept it starts from, the edges to the synthetic
\* full-attribute concept too.
C20_EdgesFollowExtents ==
    (Converted /\ leq_func = "compare_set_function") =>
        \A i \in DOMAIN lattice.sbc_dict :
            \A j \in lattice.sbc_dict[i] :
                /\ j + 1 \in DOMAIN lattice.concepts
                /\ lattice.concepts[j + 1].extent \subseteq lattice.concepts[i + 1].extent
\* a converted tree with an edge between two premises whose extents differ
C20_Witness ==
    /\ Converted /\ leq_func = "compare_set_function"
    /\ \E i \in DOMAIN lattice.sbc_dict :
          \E j \in lattice.sbc_dict[i] :
              /\ j < Len(premises)
              /\ lattice.concepts[j + 1].extent # lattice.concepts[i + 1].extent
    /\ \E i \in DOMAIN lattice.sbc_dict : Len(premises) \in lattice.sbc_dict[i]

====
